---- MODULE Spec2Model ----
(***************************************************************************)
(* A model of the N x N x N cube of src/main.rs: the cube state, the       *)
(* geometry table get_sides, the coordinate mapping                        *)
(* position_based_off_corner_and_move_count, the cycle! macro and          *)
(* rotate_face, together with the programs that drive them (the tests and  *)
(* main's checkerboard runs).                                              *)
(*                                                                         *)
(* usize values are modelled as integers.  A subtraction that goes below   *)
(* zero yields a negative integer k, which stands for the wrapped value    *)
(* 2^64 + k of a build without overflow checks; a build with overflow      *)
(* checks panics at that subtraction instead.                              *)
(***************************************************************************)
EXTENDS Integers, Sequences, FiniteSets, TLC

VARIABLES rc, status, calls, last, before, prog, pc

vars == <<rc, status, calls, last, before, prog, pc>>

\* ---------------------------------------------------------------- bounds
MaxN == 3
MaxMoves == 2
ExtraDepth == 1

\* ----------------------------------------------------------------- types
Color == {"White", "Yellow", "Red", "Orange", "Blue", "Green"}

Face == {"Up", "Left", "Front", "Right", "Back", "Down"}

Corner == {"TopLeft", "TopRight", "BottomLeft", "BottomRight"}

Movement == {"Clockwise", "CounterClockwise", "Half"}

\* `face as usize`: the discriminant of the enum, in declaration order.
FaceAsUsize(face) ==
    CASE face = "Up" -> 0
      [] face = "Left" -> 1
      [] face = "Front" -> 2
      [] face = "Right" -> 3
      [] face = "Back" -> 4
      [] face = "Down" -> 5

Side(face, corner) == [face |-> face, corner |-> corner]

\* vec![vec![color; size]; size]
Grid(size, color) == [r \in 0..(size - 1) |-> [c \in 0..(size - 1) |-> color]]

new(size) ==
    [size |-> size,
     faces |-> [k \in 0..5 |->
                  Grid(size, CASE k = 0 -> "Yellow"
                               [] k = 1 -> "Orange"
                               [] k = 2 -> "Blue"
                               [] k = 3 -> "Red"
                               [] k = 4 -> "Green"
                               [] k = 5 -> "White")]]

\* ------------------------------------------------------- geometry table
\* The array [Side; 4] is the sequence <<sides[0], .., sides[3]>>: the
\* code's sides[j] is get_sides(face)[j + 1] here.
\* Mutant: Front's neighbours listed in the opposite sense (Left and Right
\* exchanged).
get_sides_front_reversed(face) ==
    CASE face = "Up" ->
           <<Side("Back", "TopRight"), Side("Right", "TopRight"),
             Side("Front", "TopRight"), Side("Left", "TopRight")>>
      [] face = "Left" ->
           <<Side("Up", "TopLeft"), Side("Front", "TopLeft"),
             Side("Down", "TopLeft"), Side("Back", "BottomRight")>>
      [] face = "Front" ->
           <<Side("Up", "BottomLeft"), Side("Left", "BottomRight"),
             Side("Down", "TopRight"), Side("Right", "TopLeft")>>
      [] face = "Right" ->
           <<Side("Up", "BottomRight"), Side("Back", "TopLeft"),
             Side("Down", "BottomRight"), Side("Front", "BottomRight")>>
      [] face = "Back" ->
           <<Side("Up", "TopRight"), Side("Left", "TopLeft"),
             Side("Down", "BottomLeft"), Side("Right", "BottomRight")>>
      [] face = "Down" ->
           <<Side("Front", "BottomLeft"), Side("Right", "BottomLeft"),
             Side("Back", "BottomLeft"), Side("Left", "BottomLeft")>>

\* Mutant: a copy-paste slip in Down's row (Right listed twice, Left not at
\* all).
get_sides_down_slip(face) ==
    CASE face = "Up" ->
           <<Side("Back", "TopRight"), Side("Right", "TopRight"),
             Side("Front", "TopRight"), Side("Left", "TopRight")>>
      [] face = "Left" ->
           <<Side("Up", "TopLeft"), Side("Front", "TopLeft"),
             Side("Down", "TopLeft"), Side("Back", "BottomRight")>>
      [] face = "Front" ->
           <<Side("Up", "BottomLeft"), Side("Right", "TopLeft"),
             Side("Down", "TopRight"), Side("Left", "BottomRight")>>
      [] face = "Right" ->
           <<Side("Up", "BottomRight"), Side("Back", "TopLeft"),
             Side("Down", "BottomRight"), Side("Front", "BottomRight")>>
      [] face = "Back" ->
           <<Side("Up", "TopRight"), Side("Left", "TopLeft"),
             Side("Down", "BottomLeft"), Side("Right", "BottomRight")>>
      [] face = "Down" ->
           <<Side("Front", "BottomLeft"), Side("Right", "BottomLeft"),
             Side("Back", "BottomLeft"), Side("Right", "BottomLeft")>>

get_sides(face) ==
    CASE face = "Up" ->
           <<Side("Back", "TopRight"), Side("Right", "TopRight"),
             Side("Front", "TopRight"), Side("Left", "TopRight")>>
      [] face = "Left" ->
           <<Side("Up", "TopLeft"), Side("Front", "TopLeft"),
             Side("Down", "TopLeft"), Side("Back", "BottomRight")>>
      [] face = "Front" ->
           <<Side("Up", "BottomLeft"), Side("Right", "TopLeft"),
             Side("Down", "TopRight"), Side("Left", "BottomRight")>>
      [] face = "Right" ->
           <<Side("Up", "BottomRight"), Side("Back", "TopLeft"),
             Side("Down", "BottomRight"), Side("Front", "BottomRight")>>
      [] face = "Back" ->
           <<Side("Up", "TopRight"), Side("Left", "TopLeft"),
             Side("Down", "BottomLeft"), Side("Right", "BottomRight")>>
      [] face = "Down" ->
           <<Side("Front", "BottomLeft"), Side("Right", "BottomLeft"),
             Side("Back", "BottomLeft"), Side("Left", "BottomLeft")>>

\* ---------------------------------------------------- usize arithmetic
\* a - b on usize; a negative result stands for the wrapped value.
Sub(a, b) == a - b

\* a < b on usize values in that representation.
UsizeLt(a, b) ==
    IF (a < 0) = (b < 0) THEN a < b ELSE b < 0

\* --------------------------------------------------- coordinate mapping
\* Mutant: TopLeft walks along row `depth` instead of column `depth`.
position_top_left_transposed(corner, move_count, size, depth) ==
    CASE corner = "TopLeft" -> <<depth, move_count>>
      [] corner = "TopRight" -> <<depth, Sub(Sub(size, 1), move_count)>>
      [] corner = "BottomRight" ->
           <<Sub(Sub(size, 1), move_count), Sub(Sub(size, 1), depth)>>
      [] corner = "BottomLeft" -> <<Sub(Sub(size, 1), depth), move_count>>

\* Mutant: off by one along the top edge (size - move_count).
position_off_by_one(corner, move_count, size, depth) ==
    CASE corner = "TopLeft" -> <<move_count, depth>>
      [] corner = "TopRight" -> <<depth, Sub(size, move_count)>>
      [] corner = "BottomRight" ->
           <<Sub(Sub(size, 1), move_count), Sub(Sub(size, 1), depth)>>
      [] corner = "BottomLeft" -> <<Sub(Sub(size, 1), depth), move_count>>

\* Mutant: the depth is clamped to the deepest layer instead of being used
\* as it comes.
position_depth_clamped(corner, move_count, size, depth) ==
    LET d == IF depth < size THEN depth ELSE Sub(size, 1)
    IN  CASE corner = "TopLeft" -> <<move_count, d>>
          [] corner = "TopRight" -> <<d, Sub(Sub(size, 1), move_count)>>
          [] corner = "BottomRight" ->
               <<Sub(Sub(size, 1), move_count), Sub(Sub(size, 1), d)>>
          [] corner = "BottomLeft" -> <<Sub(Sub(size, 1), d), move_count>>

\* Mutant: BottomLeft walks its row from the right (size - 1 - move_count).
position_bottom_left_reversed(corner, move_count, size, depth) ==
    CASE corner = "TopLeft" -> <<move_count, depth>>
      [] corner = "TopRight" -> <<depth, Sub(Sub(size, 1), move_count)>>
      [] corner = "BottomRight" ->
           <<Sub(Sub(size, 1), move_count), Sub(Sub(size, 1), depth)>>
      [] corner = "BottomLeft" ->
           <<Sub(Sub(size, 1), depth), Sub(Sub(size, 1), move_count)>>

position_based_off_corner_and_move_count(corner, move_count, size, depth) ==
    CASE corner = "TopLeft" -> <<move_count, depth>>
      [] corner = "TopRight" -> <<depth, Sub(Sub(size, 1), move_count)>>
      [] corner = "BottomRight" ->
           <<Sub(Sub(size, 1), move_count), Sub(Sub(size, 1), depth)>>
      [] corner = "BottomLeft" -> <<Sub(Sub(size, 1), depth), move_count>>

\* ------------------------------------------------------ places and cycle!
\* A place expression faces[f][r][c] is the triple <<f, r, c>>.  A run of
\* rotate_face is threaded through a record [faces, status]; once status
\* is not "ok" the call has panicked and nothing more is executed.
\* Evaluating a place indexes the rows, then the row.  `checks` says that
\* the index expressions are subtractions written inside the place and the
\* build checks overflow: a subtraction below zero then panics before the
\* index is used.
EvalPlace(faces, p, checks) ==
    IF checks /\ p[2] < 0 THEN "overflow_panic"
    ELSE IF p[2] \notin DOMAIN faces[p[1]] THEN "index_panic"
    ELSE IF checks /\ p[3] < 0 THEN "overflow_panic"
    ELSE IF p[3] \notin DOMAIN faces[p[1]][p[2]] THEN "index_panic"
    ELSE "ok"

ReadPlace(faces, p) == faces[p[1]][p[2]][p[3]]

WritePlace(faces, p, v) == [faces EXCEPT ![p[1]][p[2]][p[3]] = v]

\* `dst = src;` of two indexed places: the value of src is read first, then
\* dst is indexed and written; either evaluation may panic.
Assign(st, dst, src, checks) ==
    IF st.status # "ok" THEN st
    ELSE IF EvalPlace(st.faces, src, checks) # "ok"
         THEN [st EXCEPT !.status = EvalPlace(st.faces, src, checks)]
    ELSE IF EvalPlace(st.faces, dst, checks) # "ok"
         THEN [st EXCEPT !.status = EvalPlace(st.faces, dst, checks)]
    ELSE [st EXCEPT !.faces = WritePlace(@, dst, ReadPlace(@, src))]

\* `dst = temp;`
Store(st, dst, temp, checks) ==
    IF st.status # "ok" THEN st
    ELSE IF EvalPlace(st.faces, dst, checks) # "ok"
         THEN [st EXCEPT !.status = EvalPlace(st.faces, dst, checks)]
    ELSE [st EXCEPT !.faces = WritePlace(@, dst, temp)]

\* cycle!(a, b): temp = a; a = b; b = temp
cycle2(st, a, b, checks) ==
    IF st.status # "ok" THEN st
    ELSE IF EvalPlace(st.faces, a, checks) # "ok"
         THEN [st EXCEPT !.status = EvalPlace(st.faces, a, checks)]
    ELSE LET temp == ReadPlace(st.faces, a)
         IN  Store(Assign(st, a, b, checks), b, temp, checks)

\* Mutant: the last cell is left out (temp = a; a = b; b = c; c = temp).
cycle4_three(st, a, b, c, d, checks) ==
    IF st.status # "ok" THEN st
    ELSE IF EvalPlace(st.faces, a, checks) # "ok"
         THEN [st EXCEPT !.status = EvalPlace(st.faces, a, checks)]
    ELSE LET temp == ReadPlace(st.faces, a)
         IN  Store(Assign(Assign(st, a, b, checks), b, c, checks),
                   c, temp, checks)

\* Mutant: no temporary (a = b; b = c; c = d; d = a): the last cell gets
\* the value a has after it was overwritten.
cycle4_no_temp(st, a, b, c, d, checks) ==
    IF st.status # "ok" THEN st
    ELSE Assign(Assign(Assign(Assign(st, a, b, checks), b, c, checks),
                       c, d, checks),
                d, a, checks)

\* cycle!(a, b, c, d): temp = a; a = b; b = c; c = d; d = temp
cycle4(st, a, b, c, d, checks) ==
    IF st.status # "ok" THEN st
    ELSE IF EvalPlace(st.faces, a, checks) # "ok"
         THEN [st EXCEPT !.status = EvalPlace(st.faces, a, checks)]
    ELSE LET temp == ReadPlace(st.faces, a)
         IN  Store(Assign(Assign(Assign(st, a, b, checks), b, c, checks),
                          c, d, checks),
                   d, temp, checks)

\* ----------------------------------------------------------- rotate_face
\* Mutant: the Clockwise and CounterClockwise arms exchanged.
SelfCycle_arms_exchanged(st, mf, movement, s, o, i, checks) ==
    LET oi == <<mf, o, i>>
        io == <<mf, Sub(s, i), o>>
        os == <<mf, Sub(s, o), Sub(s, i)>>
        si == <<mf, i, Sub(s, o)>>
    IN  CASE movement = "Clockwise" -> cycle4(st, oi, si, os, io, checks)
          [] movement = "CounterClockwise" ->
               cycle4(st, oi, io, os, si, checks)
          [] movement = "Half" ->
               cycle2(cycle2(st, oi, os, checks), io, si, checks)

\* The body of the inner loop of the depth-0 branch, for one (o, i):
\* the cycle! over four cells of main_face = faces[mf].
SelfCycle(st, mf, movement, s, o, i, checks) ==
    LET oi == <<mf, o, i>>
        io == <<mf, Sub(s, i), o>>
        os == <<mf, Sub(s, o), Sub(s, i)>>
        si == <<mf, i, Sub(s, o)>>
    IN  CASE movement = "Clockwise" -> cycle4(st, oi, io, os, si, checks)
          [] movement = "CounterClockwise" ->
               cycle4(st, oi, si, os, io, checks)
          [] movement = "Half" ->
               cycle2(cycle2(st, oi, os, checks), io, si, checks)

\* for i in o..(s - o), from i on
RECURSIVE SelfRow(_, _, _, _, _, _, _)
SelfRow(st, mf, movement, s, o, i, checks) ==
    IF st.status # "ok" \/ ~UsizeLt(i, Sub(s, o)) THEN st
    ELSE SelfRow(SelfCycle(st, mf, movement, s, o, i, checks),
                 mf, movement, s, o, i + 1, checks)

\* for o in 0..(rc.size / 2), from o on
RECURSIVE SelfRings(_, _, _, _, _, _, _)
SelfRings(st, mf, movement, size, s, o, checks) ==
    IF st.status # "ok" \/ ~(o < size \div 2) THEN st
    ELSE IF checks /\ Sub(s, o) < 0
         THEN [st EXCEPT !.status = "overflow_panic"]
    ELSE SelfRings(SelfRow(st, mf, movement, s, o, o, checks),
                   mf, movement, size, s, o + 1, checks)

\* if depth == 0 { ... }
SelfRotate(st, size, face, movement, checks) ==
    IF checks /\ Sub(size, 1) < 0
    THEN [st EXCEPT !.status = "overflow_panic"]
    ELSE SelfRings(st, FaceAsUsize(face), movement, size, Sub(size, 1), 0,
                   checks)

\* Mutant: the CounterClockwise arm cycles the cells in the order of the
\* Clockwise arm.
SideCycle_same_direction(st, sides, movement, size, depth, i, checks) ==
    LET positions ==
            [j \in 1..4 |->
               position_based_off_corner_and_move_count(
                   sides[j].corner, i, size, depth)]
        cell(j) ==
            <<FaceAsUsize(sides[j].face), positions[j][1], positions[j][2]>>
    IN  IF st.status # "ok" THEN st
        ELSE IF checks /\ \E j \in 1..4 :
                              positions[j][1] < 0 \/ positions[j][2] < 0
             THEN [st EXCEPT !.status = "overflow_panic"]
        ELSE CASE movement = "Clockwise" ->
                    cycle4(st, cell(1), cell(4), cell(3), cell(2), FALSE)
               [] movement = "CounterClockwise" ->
                    cycle4(st, cell(1), cell(4), cell(3), cell(2), FALSE)
               [] movement = "Half" ->
                    cycle2(cycle2(st, cell(1), cell(3), FALSE),
                           cell(2), cell(4), FALSE)

\* Mutant: the Clockwise arm cycles the cells forward through the list
\* (the order of the CounterClockwise arm).
SideCycle_clockwise_forward(st, sides, movement, size, depth, i, checks) ==
    LET positions ==
            [j \in 1..4 |->
               position_based_off_corner_and_move_count(
                   sides[j].corner, i, size, depth)]
        cell(j) ==
            <<FaceAsUsize(sides[j].face), positions[j][1], positions[j][2]>>
    IN  IF st.status # "ok" THEN st
        ELSE IF checks /\ \E j \in 1..4 :
                              positions[j][1] < 0 \/ positions[j][2] < 0
             THEN [st EXCEPT !.status = "overflow_panic"]
        ELSE CASE movement = "Clockwise" ->
                    cycle4(st, cell(1), cell(2), cell(3), cell(4), FALSE)
               [] movement = "CounterClockwise" ->
                    cycle4(st, cell(1), cell(2), cell(3), cell(4), FALSE)
               [] movement = "Half" ->
                    cycle2(cycle2(st, cell(1), cell(3), FALSE),
                           cell(2), cell(4), FALSE)

\* The body of the loop over the sides, for one i: the four positions are
\* computed first, then the cells are cycled.
SideCycle(st, sides, movement, size, depth, i, checks) ==
    LET positions ==
            [j \in 1..4 |->
               position_based_off_corner_and_move_count(
                   sides[j].corner, i, size, depth)]
        cell(j) ==
            <<FaceAsUsize(sides[j].face), positions[j][1], positions[j][2]>>
    IN  IF st.status # "ok" THEN st
        ELSE IF checks /\ \E j \in 1..4 :
                              positions[j][1] < 0 \/ positions[j][2] < 0
             THEN [st EXCEPT !.status = "overflow_panic"]
        ELSE CASE movement = "Clockwise" ->
                    cycle4(st, cell(1), cell(4), cell(3), cell(2), FALSE)
               [] movement = "CounterClockwise" ->
                    cycle4(st, cell(1), cell(2), cell(3), cell(4), FALSE)
               [] movement = "Half" ->
                    cycle2(cycle2(st, cell(1), cell(3), FALSE),
                           cell(2), cell(4), FALSE)

\* for i in 0..rc.size, from i on
RECURSIVE SideLoop(_, _, _, _, _, _, _)
SideLoop(st, sides, movement, size, depth, i, checks) ==
    IF st.status # "ok" \/ ~(i < size) THEN st
    ELSE SideLoop(SideCycle(st, sides, movement, size, depth, i, checks),
                  sides, movement, size, depth, i + 1, checks)

\* rotate_face(rc, face, movement, depth) in a build with (checks) or
\* without overflow checks: the faces when the call returns or panics, and
\* "ok" or the kind of panic.
rotate_face(cube, face, movement, depth, checks) ==
    LET st0 == [faces |-> cube.faces, status |-> "ok"]
        st1 == IF depth = 0
               THEN SelfRotate(st0, cube.size, face, movement, checks)
               ELSE st0
    IN  SideLoop(st1, get_sides(face), movement, cube.size, depth, 0, checks)

\* ------------------------------------------------------------ the state
\* rc      the cube
\* status  "ok", or the panic that ended the program
\* calls   the number of rotate_face calls made so far
\* last    the arguments of the latest call (NoCall before the first)
\* before  the cube as it was when the latest call was made
\* prog    the driver: "api" (any caller), a test, or a checkerboard run
\* pc      the driver's position in its list of calls
NoCall == [face |-> "None", movement |-> "None", depth |-> 0]

\* A cube built by its caller as a struct literal RubiksCube { size, faces }
\* with colours of its choice, as the tests build theirs: cell (r, c) of
\* face k holds the colour number (k + r * size + c) mod 6, so that every
\* colour occurs size * size times and no face of size > 1 is uniform.
ColorOf(n) ==
    CASE n = 0 -> "White" [] n = 1 -> "Yellow" [] n = 2 -> "Red"
      [] n = 3 -> "Orange" [] n = 4 -> "Blue" [] n = 5 -> "Green"

Painted(size) ==
    [size |-> size,
     faces |-> [k \in 0..5 |->
                  [r \in 0..(size - 1) |->
                     [c \in 0..(size - 1) |->
                        ColorOf((k + r * size + c) % 6)]]]]

Call(face, movement, depth, checks) ==
    LET res == rotate_face(rc, face, movement, depth, checks)
    IN  /\ rc' = [rc EXCEPT !.faces = res.faces]
        /\ status' = res.status
        /\ calls' = calls + 1
        /\ last' = [face |-> face, movement |-> movement, depth |-> depth]
        /\ before' = rc

\* --------------------------------------------------------- the programs
\* An array or vec! literal, indexed from 0.
Array(seq) == [k \in 0..(Len(seq) - 1) |-> seq[k + 1]]

Grid2(rows) == Array([r \in 1..Len(rows) |-> Array(rows[r])])

Move(face, movement, depth) ==
    [face |-> face, movement |-> movement, depth |-> depth]

random_3x3x3_clockwise_scramble_moves ==
    <<
      Move("Down", "Clockwise", 0), Move("Left", "Clockwise", 0),
      Move("Up", "Clockwise", 0), Move("Front", "Clockwise", 0),
      Move("Left", "Clockwise", 0), Move("Up", "Clockwise", 0),
      Move("Down", "Clockwise", 0), Move("Right", "Clockwise", 0),
      Move("Down", "Clockwise", 0), Move("Left", "Clockwise", 0),
      Move("Front", "Clockwise", 0), Move("Back", "Clockwise", 0),
      Move("Left", "Clockwise", 0), Move("Right", "Clockwise", 0),
      Move("Back", "Clockwise", 0), Move("Up", "Clockwise", 0),
      Move("Down", "Clockwise", 0), Move("Front", "Clockwise", 0),
      Move("Up", "Clockwise", 0), Move("Down", "Clockwise", 0),
      Move("Back", "Clockwise", 0), Move("Left", "Clockwise", 0),
      Move("Front", "Clockwise", 0), Move("Left", "Clockwise", 0),
      Move("Right", "Clockwise", 0), Move("Left", "Clockwise", 0),
      Move("Down", "Clockwise", 0), Move("Left", "Clockwise", 0),
      Move("Front", "Clockwise", 0), Move("Back", "Clockwise", 0)
    >>

random_3x3x3_clockwise_scramble_expected ==
    [size |-> 3, faces |->
      Array(<<Grid2(<<<<"Green", "White", "Red">>,
               <<"Yellow", "Yellow", "Red">>,
               <<"Blue", "Red", "Red">>>>),
            Grid2(<<<<"White", "Blue", "Orange">>,
               <<"Blue", "Orange", "Orange">>,
               <<"Green", "Green", "Orange">>>>),
            Grid2(<<<<"White", "White", "Yellow">>,
               <<"Yellow", "Blue", "Orange">>,
               <<"White", "White", "Orange">>>>),
            Grid2(<<<<"Blue", "Yellow", "Blue">>,
               <<"Blue", "Red", "Red">>,
               <<"Green", "Yellow", "Yellow">>>>),
            Grid2(<<<<"White", "Green", "Red">>,
               <<"Blue", "Green", "White">>,
               <<"Blue", "Orange", "Yellow">>>>),
            Grid2(<<<<"Green", "Orange", "Yellow">>,
               <<"Red", "White", "Green">>,
               <<"Red", "Green", "Orange">>>>)>>)]

random_3x3x3_mixed_scramble_moves ==
    <<
      Move("Up", "Half", 0), Move("Right", "Half", 0), Move("Down", "Half", 0),
      Move("Front", "CounterClockwise", 0), Move("Down", "Clockwise", 0),
      Move("Up", "Half", 0), Move("Back", "CounterClockwise", 0),
      Move("Left", "Clockwise", 0), Move("Front", "Clockwise", 0),
      Move("Up", "Half", 0), Move("Front", "Half", 0), Move("Down", "Clockwise", 0),
      Move("Right", "CounterClockwise", 0), Move("Down", "Clockwise", 0),
      Move("Left", "CounterClockwise", 0), Move("Back", "Half", 0),
      Move("Front", "Half", 0), Move("Back", "CounterClockwise", 0),
      Move("Right", "Clockwise", 0), Move("Down", "CounterClockwise", 0),
      Move("Left", "CounterClockwise", 0), Move("Front", "Clockwise", 0),
      Move("Left", "Clockwise", 0), Move("Down", "Half", 0),
      Move("Up", "CounterClockwise", 0), Move("Right", "Half", 0),
      Move("Back", "Clockwise", 0), Move("Front", "CounterClockwise", 0),
      Move("Left", "CounterClockwise", 0), Move("Up", "Half", 0)
    >>

random_3x3x3_mixed_scramble_expected ==
    [size |-> 3, faces |->
      Array(<<Grid2(<<<<"White", "Red", "Orange">>,
               <<"Orange", "Yellow", "Yellow">>,
               <<"Yellow", "Red", "Red">>>>),
            Grid2(<<<<"Orange", "Yellow", "Orange">>,
               <<"Orange", "Orange", "Yellow">>,
               <<"Yellow", "Orange", "Orange">>>>),
            Grid2(<<<<"Blue", "Blue", "Blue">>,
               <<"Red", "Blue", "Blue">>,
               <<"Green", "Orange", "Blue">>>>),
            Grid2(<<<<"White", "Blue", "Green">>,
               <<"White", "Red", "Yellow">>,
               <<"Yellow", "White", "Red">>>>),
            Grid2(<<<<"White", "Green", "Blue">>,
               <<"Green", "Green", "Green">>,
               <<"Green", "White", "Red">>>>),
            Grid2(<<<<"Yellow", "White", "Red">>,
               <<"Blue", "White", "Green">>,
               <<"Green", "Red", "White">>>>)>>)]

random_5x5x5_mixed_scramble_moves ==
    <<
      Move("Front", "Half", 1), Move("Down", "Half", 1),
      Move("Right", "Clockwise", 1), Move("Up", "CounterClockwise", 1),
      Move("Left", "CounterClockwise", 0), Move("Down", "Clockwise", 0),
      Move("Front", "Clockwise", 0), Move("Right", "CounterClockwise", 1),
      Move("Down", "Clockwise", 0), Move("Back", "CounterClockwise", 2),
      Move("Right", "Clockwise", 1), Move("Up", "Half", 2),
      Move("Front", "CounterClockwise", 0), Move("Down", "Half", 0),
      Move("Up", "CounterClockwise", 1), Move("Down", "Clockwise", 2),
      Move("Left", "Clockwise", 0), Move("Up", "Half", 0), Move("Front", "Half", 2),
      Move("Right", "Clockwise", 1), Move("Front", "Clockwise", 1),
      Move("Left", "CounterClockwise", 0), Move("Up", "CounterClockwise", 1),
      Move("Front", "Half", 2), Move("Left", "CounterClockwise", 1),
      Move("Back", "Clockwise", 1), Move("Up", "Clockwise", 0),
      Move("Left", "Half", 1), Move("Right", "Half", 1),
      Move("Back", "CounterClockwise", 0)
    >>

random_5x5x5_mixed_scramble_expected ==
    [size |-> 5, faces |->
      Array(<<Grid2(<<<<"White", "Orange", "Red", "Blue", "White">>,
               <<"Orange", "Blue", "Orange", "White", "Yellow">>,
               <<"Yellow", "Red", "Orange", "Orange", "Orange">>,
               <<"White", "Yellow", "Orange", "White", "Green">>,
               <<"Green", "White", "Red", "Blue", "Yellow">>>>),
            Grid2(<<<<"Green", "Yellow", "Green", "Green", "Red">>,
               <<"Red", "Red", "Green", "Yellow", "White">>,
               <<"Red", "White", "Blue", "Green", "Orange">>,
               <<"Red", "Blue", "Green", "Orange", "Orange">>,
               <<"Green", "Orange", "Blue", "Red", "Blue">>>>),
            Grid2(<<<<"White", "Blue", "Yellow", "Yellow", "Orange">>,
               <<"Red", "Green", "Orange", "White", "Orange">>,
               <<"Green", "Green", "Yellow", "Yellow", "Orange">>,
               <<"White", "Red", "Red", "Blue", "Yellow">>,
               <<"Yellow", "Red", "Blue", "Blue", "Blue">>>>),
            Grid2(<<<<"Blue", "Yellow", "Yellow", "Blue", "Blue">>,
               <<"Blue", "Green", "White", "Blue", "Red">>,
               <<"White", "Yellow", "Green", "White", "Orange">>,
               <<"Green", "White", "Yellow", "Orange", "Green">>,
               <<"Red", "Yellow", "White", "Orange", "Green">>>>),
            Grid2(<<<<"Orange", "White", "Blue", "White", "Orange">>,
               <<"Blue", "Yellow", "Red", "Orange", "Yellow">>,
               <<"Blue", "Blue", "White", "Blue", "Green">>,
               <<"Red", "Green", "Blue", "Yellow", "White">>,
               <<"Red", "White", "White", "Blue", "Orange">>>>),
            Grid2(<<<<"Red", "Green", "White", "Red", "White">>,
               <<"Yellow", "Green", "Blue", "Red", "Orange">>,
               <<"Yellow", "Red", "Red", "White", "Red">>,
               <<"Green", "Orange", "Yellow", "Red", "Green">>,
               <<"Yellow", "Orange", "Green", "Green", "Yellow">>>>)>>)]

Tests ==
    {"random_3x3x3_clockwise_scramble", "random_3x3x3_mixed_scramble",
     "random_5x5x5_mixed_scramble"}

TestSize(test) ==
    CASE test = "random_3x3x3_clockwise_scramble" -> 3
      [] test = "random_3x3x3_mixed_scramble" -> 3
      [] test = "random_5x5x5_mixed_scramble" -> 5

TestMoves(test) ==
    CASE test = "random_3x3x3_clockwise_scramble" ->
           random_3x3x3_clockwise_scramble_moves
      [] test = "random_3x3x3_mixed_scramble" ->
           random_3x3x3_mixed_scramble_moves
      [] test = "random_5x5x5_mixed_scramble" ->
           random_5x5x5_mixed_scramble_moves

TestExpected(test) ==
    CASE test = "random_3x3x3_clockwise_scramble" ->
           random_3x3x3_clockwise_scramble_expected
      [] test = "random_3x3x3_mixed_scramble" ->
           random_3x3x3_mixed_scramble_expected
      [] test = "random_5x5x5_mixed_scramble" ->
           random_5x5x5_mixed_scramble_expected

\* The sizes of the cubes main builds and hands to checkerboard.
MainSizes == {5, 3, 6, 7}

\* Mutant: the loop without step_by(2).
RECURSIVE CheckerboardDepths_every_depth(_, _, _)
CheckerboardDepths_every_depth(size, face, depth) ==
    IF ~(depth < (size + 1) \div 2) THEN <<>>
    ELSE <<Move(face, "Half", depth)>>
         \o (IF depth # size - depth - 1
             THEN <<Move(face, "Half", size - depth - 1)>>
             ELSE <<>>)
         \o CheckerboardDepths_every_depth(size, face, depth + 1)

\* for depth in (1..((rc.size + 1) / 2)).step_by(2), from depth on: the
\* rotate_face calls of the loop body for one face, in order.
RECURSIVE CheckerboardDepths(_, _, _)
CheckerboardDepths(size, face, depth) ==
    IF ~(depth < (size + 1) \div 2) THEN <<>>
    ELSE <<Move(face, "Half", depth)>>
         \o (IF depth # size - depth - 1
             THEN <<Move(face, "Half", size - depth - 1)>>
             ELSE <<>>)
         \o CheckerboardDepths(size, face, depth + 2)

\* checkerboard(rc, false): the rotate_face calls it makes, in order.
checkerboard(size) ==
    CheckerboardDepths(size, "Right", 1)
    \o CheckerboardDepths(size, "Up", 1)
    \o CheckerboardDepths(size, "Front", 1)

Init ==
    /\ prog = "api"
    /\ pc = 0
    /\ \E size \in 1..MaxN : rc \in {new(size), Painted(size)}
    /\ status = "ok"
    /\ calls = 0
    /\ last = NoCall
    /\ before = rc

\* Any caller calls rotate_face with any face, movement and depth, in
\* range or not, in either build.
RotateFace ==
    /\ prog = "api"
    /\ status = "ok"
    /\ calls < MaxMoves
    /\ \E face \in Face, movement \in Movement,
          depth \in 0..(rc.size - 1 + ExtraDepth), checks \in BOOLEAN :
          Call(face, movement, depth, checks)
    /\ UNCHANGED <<prog, pc>>

Next == RotateFace

Spec == Init /\ [][Next]_vars

\* A test starts from RubiksCube::new(size); main starts each checkerboard
\* run from RubiksCube::new(size).
InitPrograms ==
    /\ \/ /\ prog \in Tests
          /\ rc = new(TestSize(prog))
       \/ /\ prog = "main"
          /\ \E size \in MainSizes : rc = new(size)
    /\ pc = 0
    /\ status = "ok"
    /\ calls = 0
    /\ last = NoCall
    /\ before = rc

\* for m in moves { rotate_face(&mut rc, ..) }: one iteration.
TestStep ==
    /\ prog \in Tests
    /\ status = "ok"
    /\ pc < Len(TestMoves(prog))
    /\ LET m == TestMoves(prog)[pc + 1]
       IN  \E checks \in BOOLEAN : Call(m.face, m.movement, m.depth, checks)
    /\ pc' = pc + 1
    /\ UNCHANGED prog

\* assert_eq!(rc, expected)
TestAssert ==
    /\ prog \in Tests
    /\ status = "ok"
    /\ pc = Len(TestMoves(prog))
    /\ status' = IF rc = TestExpected(prog) THEN "passed" ELSE "assert_panic"
    /\ UNCHANGED <<rc, calls, last, before, prog, pc>>

\* The next rotate_face call of checkerboard.
CheckerboardStep ==
    /\ prog = "main"
    /\ status = "ok"
    /\ pc < Len(checkerboard(rc.size))
    /\ LET m == checkerboard(rc.size)[pc + 1]
       IN  \E checks \in BOOLEAN : Call(m.face, m.movement, m.depth, checks)
    /\ pc' = pc + 1
    /\ UNCHANGED prog

NextPrograms == TestStep \/ TestAssert \/ CheckerboardStep

SpecPrograms == InitPrograms /\ [][NextPrograms]_vars

\* Every driver: any caller, the tests and main.
InitAll == Init \/ InitPrograms

NextAll == RotateFace \/ TestStep \/ TestAssert \/ CheckerboardStep

SpecAll == InitAll /\ [][NextAll]_vars

\* ============================================================ properties
\* Helpers of the properties below.
Cells(cube) == (0..5) \X (0..(cube.size - 1)) \X (0..(cube.size - 1))

Called == last # NoCall

\* The cube after one more call of rotate_face on `cube`: [faces, status].
Again(cube, st, face, movement, depth, checks) ==
    IF st.status # "ok" THEN st
    ELSE rotate_face([cube EXCEPT !.faces = st.faces], face, movement, depth,
                     checks)

\* The latest call, repeated n more times from the present cube.
RECURSIVE RepeatLast(_, _, _)
RepeatLast(movement, n, checks) ==
    IF n = 0 THEN [faces |-> rc.faces, status |-> "ok"]
    ELSE Again(rc, RepeatLast(movement, n - 1, checks),
               last.face, movement, last.depth, checks)

InverseOf(movement) ==
    CASE movement = "Clockwise" -> "CounterClockwise"
      [] movement = "CounterClockwise" -> "Clockwise"
      [] movement = "Half" -> "Half"

\* C1 (inverse property): whenever rotate_face(F, Clockwise, D) has just
\* returned, calling rotate_face(F, CounterClockwise, D) next returns and
\* leaves all six grids exactly as they were before the first call; and the
\* same with CounterClockwise first and Clockwise second.  The cube before
\* the first call is any cube the model reaches (solved, painted or
\* scrambled), F any face, D any depth in [0, N-1].
C1_InverseProperty ==
    (status = "ok" /\ Called /\ last.movement \in {"Clockwise", "CounterClockwise"})
    => \A checks \in BOOLEAN :
         RepeatLast(InverseOf(last.movement), 1, checks) =
             [faces |-> before.faces, status |-> "ok"]

\* A counter-clockwise turn of an inner layer of a scrambled 3x3x3 cube has
\* changed the cube, and the clockwise turn would restore it.
C1_Witness ==
    /\ status = "ok" /\ calls = 2 /\ rc.size = 3
    /\ last.movement = "CounterClockwise" /\ last.depth = 1
    /\ rc # before
    /\ RepeatLast("Clockwise", 1, TRUE).faces = before.faces

\* C2 (order property): after rotate_face(F, Clockwise, D) has returned,
\* three more calls of it restore all six grids to what they were before
\* the first of the four calls; after rotate_face(F, Half, D) has returned,
\* one more call of it restores the grids to what they were before the
\* first of the two.
C2_OrderProperty ==
    (status = "ok" /\ Called)
    => \A checks \in BOOLEAN :
         /\ last.movement = "Clockwise"
              => RepeatLast("Clockwise", 3, checks) =
                     [faces |-> before.faces, status |-> "ok"]
         /\ last.movement = "Half"
              => RepeatLast("Half", 1, checks) =
                     [faces |-> before.faces, status |-> "ok"]

\* A clockwise outer turn of a scrambled 3x3x3 cube: one, two and three
\* turns each give a cube other than the original, the fourth restores it.
C2_Witness ==
    /\ status = "ok" /\ calls = 2 /\ rc.size = 3
    /\ last.movement = "Clockwise" /\ last.depth = 0
    /\ rc # before
    /\ RepeatLast("Clockwise", 1, TRUE).faces # before.faces
    /\ RepeatLast("Clockwise", 2, TRUE).faces # before.faces
    /\ RepeatLast("Clockwise", 3, TRUE).faces = before.faces

\* The number of facelets of a colour on a cube.
Count(cube, color) ==
    Cardinality({p \in Cells(cube) : ReadPlace(cube.faces, p) = color})

\* C3 (conservation): in every state reached by rotate_face calls that
\* returned, each of the six colours occurs exactly N*N times over the
\* 6*N*N facelets, and the latest call left the number of facelets of
\* every colour as it was.
C3_Conservation ==
    status = "ok"
    => \A color \in Color :
         /\ Count(rc, color) = rc.size * rc.size
         /\ Count(rc, color) = Count(before, color)

\* Two turns have scrambled the solved 3x3x3 cube: the Up face is no
\* longer uniform.
C3_Witness ==
    /\ status = "ok" /\ calls = 2 /\ rc.size = 3
    /\ rc # before /\ before # new(3)
    /\ \E r \in 0..2, c \in 0..2 : rc.faces[0][r][c] # rc.faces[0][0][0]
    /\ Count(rc, "Yellow") = 9

\* The line of a neighbouring face selected by (corner, depth).
OnLine(corner, depth, size, r, c) ==
    CASE corner = "TopLeft" -> c = depth
      [] corner = "TopRight" -> r = depth
      [] corner = "BottomRight" -> c = size - 1 - depth
      [] corner = "BottomLeft" -> r = size - 1 - depth

Opposite(face) ==
    CASE face = "Up" -> "Down" [] face = "Down" -> "Up"
      [] face = "Left" -> "Right" [] face = "Right" -> "Left"
      [] face = "Front" -> "Back" [] face = "Back" -> "Front"

\* C4 (locality): a facelet that the latest call rotate_face(F, movement,
\* D), D in [0, N-1], changed lies on F or on a face G listed by
\* get_sides(F) as Side(G, corner), and in the latter case on the line of
\* G selected by (corner, D): column D for TopLeft, row D for TopRight,
\* column N-1-D for BottomRight, row N-1-D for BottomLeft.  The face
\* opposite F is unchanged.
C4_Locality ==
    (status = "ok" /\ Called)
    => /\ \A p \in Cells(rc) :
            ReadPlace(rc.faces, p) # ReadPlace(before.faces, p)
            => \/ p[1] = FaceAsUsize(last.face)
               \/ \E j \in 1..4 :
                     /\ FaceAsUsize(get_sides(last.face)[j].face) = p[1]
                     /\ OnLine(get_sides(last.face)[j].corner, last.depth,
                               rc.size, p[2], p[3])
       /\ rc.faces[FaceAsUsize(Opposite(last.face))] =
              before.faces[FaceAsUsize(Opposite(last.face))]

\* A turn at the deepest layer D = N-1 of a 3x3x3 cube changed a facelet
\* of a neighbouring face.
C4_Witness ==
    /\ status = "ok" /\ Called /\ rc.size = 3 /\ last.depth = 2
    /\ \E j \in 1..4 :
          rc.faces[FaceAsUsize(get_sides(last.face)[j].face)] #
              before.faces[FaceAsUsize(get_sides(last.face)[j].face)]

\* C5 (self-rotation): after rotate_face(F, movement, 0) the colour that
\* was in F's cell (row, col) is in (col, N-1-row) for Clockwise, in
\* (N-1-col, row) for CounterClockwise and in (N-1-row, N-1-col) for Half,
\* for odd and even N; for odd N the centre cell keeps its colour.  After
\* a call with depth > 0, F's own grid is unchanged.
C5_SelfRotation ==
    (status = "ok" /\ Called)
    => LET f == FaceAsUsize(last.face)
           n == rc.size
           old == before.faces[f]
           now == rc.faces[f]
       IN  IF last.depth = 0
           THEN /\ \A row \in 0..(n - 1), col \in 0..(n - 1) :
                     /\ last.movement = "Clockwise"
                          => now[col][n - 1 - row] = old[row][col]
                     /\ last.movement = "CounterClockwise"
                          => now[n - 1 - col][row] = old[row][col]
                     /\ last.movement = "Half"
                          => now[n - 1 - row][n - 1 - col] = old[row][col]
                /\ n % 2 = 1 => now[n \div 2][n \div 2] = old[n \div 2][n \div 2]
           ELSE now = old

\* A clockwise outer turn of a face of the 3x3x3 cube whose grid was not
\* uniform and is not what it was.
C5_Witness ==
    /\ status = "ok" /\ Called /\ rc.size = 3
    /\ last.depth = 0 /\ last.movement = "Clockwise"
    /\ rc.faces[FaceAsUsize(last.face)] # before.faces[FaceAsUsize(last.face)]
    /\ rc.faces[FaceAsUsize(last.face)][0][2] =
           before.faces[FaceAsUsize(last.face)][0][0]

\* The faces of the scramble and the final grids as the claim C6 gives
\* them, rows top to bottom.
C6_Faces ==
    <<"Down", "Left", "Up", "Front", "Left", "Up", "Down", "Right", "Down",
      "Left", "Front", "Back", "Left", "Right", "Back", "Up", "Down",
      "Front", "Up", "Down", "Back", "Left", "Front", "Left", "Right",
      "Left", "Down", "Left", "Front", "Back">>

C6_Final ==
    LET G == "Green"  W == "White"  R == "Red"
        Y == "Yellow" B == "Blue"   O == "Orange"
    IN  [f \in Face |->
           CASE f = "Up" -> Grid2(<<<<G, W, R>>, <<Y, Y, R>>, <<B, R, R>>>>)
             [] f = "Left" -> Grid2(<<<<W, B, O>>, <<B, O, O>>, <<G, G, O>>>>)
             [] f = "Front" -> Grid2(<<<<W, W, Y>>, <<Y, B, O>>, <<W, W, O>>>>)
             [] f = "Right" -> Grid2(<<<<B, Y, B>>, <<B, R, R>>, <<G, Y, Y>>>>)
             [] f = "Back" -> Grid2(<<<<W, G, R>>, <<B, G, W>>, <<B, O, Y>>>>)
             [] f = "Down" -> Grid2(<<<<G, O, Y>>, <<R, W, G>>, <<R, G, O>>>>)]

\* C6 (scramble fixture): the test random_3x3x3_clockwise_scramble starts
\* from RubiksCube::new(3), its k-th call is rotate_face(C6_Faces[k],
\* Clockwise, 0), and after the 30th call the six grids are exactly those
\* of C6_Final.
C6_ScrambleFixture ==
    prog = "random_3x3x3_clockwise_scramble"
    => /\ pc = 0 => rc = new(3)
       /\ pc >= 1 => last = Move(C6_Faces[pc], "Clockwise", 0)
       /\ pc = 30 => /\ status # "assert_panic"
                     /\ \A f \in Face : rc.faces[FaceAsUsize(f)] = C6_Final[f]

\* The scramble has made its 30 calls and the assertion has passed.
C6_Witness ==
    /\ prog = "random_3x3x3_clockwise_scramble"
    /\ pc = 30 /\ calls = 30 /\ status = "passed"
    /\ rc.faces[0][0][0] = "Green"

\* The state after checkerboard has returned on main's 5x5x5 cube.
CheckerboardDone5 ==
    /\ prog = "main" /\ rc.size = 5
    /\ pc = Len(checkerboard(5)) /\ status = "ok"

\* The solved colour of a face.
Solved(f) == new(1).faces[FaceAsUsize(f)][0][0]

\* C7 as claimed: after checkerboard on the solved 5x5x5 cube every facelet
\* in row 0, row 4, column 0 or column 4 of every face still has the
\* face's solved colour, and the inner facelets (rows and columns 1..3)
\* alternate between the face's colour and another colour.
C7_OuterLayerUnchanged ==
    CheckerboardDone5
    => \A f \in Face :
         LET g == rc.faces[FaceAsUsize(f)]
         IN  /\ \A r \in 0..4, c \in 0..4 :
                  (r \in {0, 4} \/ c \in {0, 4}) => g[r][c] = Solved(f)
             /\ \A r \in 1..3, c \in 1..3 :
                  (g[r][c] = Solved(f)) = ((r + c) % 2 = 0)

\* C7 (checkerboard, amended): after checkerboard on the solved 5x5x5 cube
\* the whole of every face, its outermost rows and columns included,
\* alternates: a facelet (r, c) with r + c even (the corners, the middles
\* of the outer edges, the centre) has the face's solved colour, and a
\* facelet with r + c odd has the solved colour of the opposite face.
\* checkerboard makes no call at depth 0.
C7_Checkerboard ==
    /\ prog = "main" /\ pc >= 1 => last.depth # 0 /\ last.movement = "Half"
    /\ CheckerboardDone5
       => \A f \in Face : \A r \in 0..4, c \in 0..4 :
            rc.faces[FaceAsUsize(f)][r][c] =
                IF (r + c) % 2 = 0 THEN Solved(f) ELSE Solved(Opposite(f))

\* checkerboard has returned on the 5x5x5 cube after six calls; Up's cell
\* (0, 1), in its outermost row, is White, Down's colour.
C7_Witness ==
    /\ CheckerboardDone5 /\ calls = 6
    /\ rc.faces[FaceAsUsize("Up")][0][1] = "White"
    /\ rc.faces[FaceAsUsize("Up")][0][0] = "Yellow"

\* C8 (valid inputs never fail): a call rotate_face(F, movement, D) with D
\* in [0, N-1] returns, in either build, for every N >= 1 (N = 1
\* included): no index is out of range and no subtraction goes below zero;
\* and position_based_off_corner_and_move_count(corner, i, N, depth) is a
\* cell (row, col) with 0 <= row < N and 0 <= col < N for every corner and
\* all i, depth in [0, N).
C8_ValidNeverFails ==
    /\ (Called /\ last.depth < rc.size) => status \in {"ok", "passed"}
    /\ \A corner \in Corner, i \in 0..(rc.size - 1), depth \in 0..(rc.size - 1) :
         LET pos == position_based_off_corner_and_move_count(
                        corner, i, rc.size, depth)
         IN  /\ pos[1] \in 0..(rc.size - 1)
             /\ pos[2] \in 0..(rc.size - 1)

\* Two calls on the 1x1x1 cube, the latest at depth 0, have returned.
C8_Witness ==
    /\ rc.size = 1 /\ calls = 2 /\ last.depth = 0 /\ status = "ok"

\* C9 (out-of-range depth): a call rotate_face(F, movement, D) with D >= N
\* ends in a panic (an index out of range, or a subtraction below zero in
\* a build that checks overflow) in either build, and no facelet has been
\* written when it panics: the cube is as it was before the call.
C9_OutOfRangeDepthPanics ==
    (Called /\ last.depth >= rc.size)
    => /\ status \in {"index_panic", "overflow_panic"}
       /\ rc = before

\* A call with depth = N on a scrambled 3x3x3 cube has panicked on an
\* index.
C9_Witness ==
    /\ rc.size = 3 /\ calls = 2 /\ last.depth >= 3
    /\ status = "index_panic" /\ rc = before /\ rc # new(3)

\* The faces listed by get_sides(face).
SideFaces(face) == {get_sides(face)[j].face : j \in 1..4}

\* C10 (geometry table): whatever the size of the cube, for every face F,
\* get_sides(F) lists four pairwise distinct faces, none of them F or the
\* face opposite F, and every face G it lists has F among the four faces
\* of get_sides(G).
C10_GeometryTable ==
    rc.size >= 1 =>
    \A f \in Face :
       /\ Len(get_sides(f)) = 4
       /\ Cardinality(SideFaces(f)) = 4
       /\ SideFaces(f) \subseteq Face \ {f, Opposite(f)}
       /\ \A j \in 1..4 : get_sides(f)[j].corner \in Corner
       /\ \A g \in SideFaces(f) : f \in SideFaces(g)

\* A turn of a face of a painted or scrambled 3x3x3 cube changed exactly
\* the four faces the table lists for it (and possibly the face itself).
C10_Witness ==
    /\ status = "ok" /\ Called /\ rc.size = 3
    /\ {g \in Face \ {last.face} :
           rc.faces[FaceAsUsize(g)] # before.faces[FaceAsUsize(g)]}
         = SideFaces(last.face)

\* The border cell c_j of the latest call for move_index k, j = 0..3: the
\* cell position_based_off_corner_and_move_count(S[j].corner, k, N, depth)
\* of the face S[j].face, S = get_sides(F).
BorderCell(j, k) ==
    LET side == get_sides(last.face)[j + 1]
        pos == position_based_off_corner_and_move_count(
                   side.corner, k, rc.size, last.depth)
    IN  <<FaceAsUsize(side.face), pos[1], pos[2]>>

\* C11 (direction of the border cycle): after rotate_face(F, movement,
\* depth), depth in [0, N-1], has returned, for every move_index k in
\* [0, N) and every i in 0..3: for Clockwise the colour of c_i is the
\* colour c_((i-1) mod 4) had before the call, for CounterClockwise the
\* colour c_((i+1) mod 4) had before the call, and for Half the colour
\* c_((i+2) mod 4) had before the call (c_0 and c_2 exchanged, c_1 and c_3
\* exchanged).  Every new colour is a colour of the cube before the call.
C11_BorderCycleDirection ==
    (status = "ok" /\ Called)
    => \A k \in 0..(rc.size - 1), i \in 0..3 :
         LET shift == CASE last.movement = "Clockwise" -> 3
                        [] last.movement = "CounterClockwise" -> 1
                        [] last.movement = "Half" -> 2
         IN  ReadPlace(rc.faces, BorderCell(i, k)) =
                 ReadPlace(before.faces, BorderCell((i + shift) % 4, k))

\* A clockwise turn of an inner layer of a 3x3x3 cube on which the four
\* border cells for k = 0 had four different colours: all four changed.
C11_Witness ==
    /\ status = "ok" /\ Called /\ rc.size = 3
    /\ last.movement = "Clockwise" /\ last.depth = 1
    /\ Cardinality({ReadPlace(before.faces, BorderCell(i, 0)) : i \in 0..3}) = 4
    /\ \A i \in 0..3 :
          ReadPlace(rc.faces, BorderCell(i, 0)) #
              ReadPlace(before.faces, BorderCell(i, 0))

\* The latest call turned an inner layer: N >= 3 and 0 < depth < N-1.
InnerCall ==
    /\ Called /\ status = "ok"
    /\ rc.size >= 3 /\ 0 < last.depth /\ last.depth < rc.size - 1

\* What the call of the opposite face F', in the opposite sense, at depth
\* N-1-d gives on the cube of before the latest call: [faces, status].
FromOpposite(checks) ==
    rotate_face(before, Opposite(last.face), InverseOf(last.movement),
                rc.size - 1 - last.depth, checks)

\* C12 (inner layers seen from opposite faces): for N >= 3 and an inner
\* depth d, 0 < d < N-1, the cube after rotate_face(F, Clockwise, d) is
\* exactly the cube rotate_face(F', CounterClockwise, N-1-d) gives from the
\* same cube, F' the face opposite F; likewise CounterClockwise at F
\* against Clockwise at F', and Half against Half.
C12_InnerLayerEquivalence ==
    InnerCall
    => \A checks \in BOOLEAN :
         FromOpposite(checks) = [faces |-> rc.faces, status |-> "ok"]

\* A clockwise turn of the layer at depth 1 of a scrambled 5x5x5 cube,
\* which the opposite face sees at depth 3: the cube changed, and the
\* counter-clockwise turn of the opposite face at depth 3 gives the same.
C12_Witness ==
    /\ InnerCall /\ rc.size = 5 /\ calls >= 2
    /\ last.movement = "Clockwise" /\ last.depth = 1
    /\ rc # before
    /\ FromOpposite(TRUE).faces = rc.faces

====
